---------------------------- MODULE Spec2Model ----------------------------
(***************************************************************************)
(* A model of LiteMCP's MCPServer (packages/litemcp/src/server.ts): the    *)
(* four capability registries, the sampling slot, the log level, and the   *)
(* handling of one JSON-RPC POST message from decoding to the response.    *)
(*                                                                         *)
(* Conventions.                                                            *)
(*  - A JavaScript Map is a sequence of [k, v] entries in insertion order; *)
(*    Map.set on a present key keeps the entry's position.                 *)
(*  - A URI or URI template is a sequence of one-character strings, so     *)
(*    that the regular expression built by matchesTemplate can be run on   *)
(*    it character by character.                                           *)
(*  - A handler is a function object; it is identified by the ordinal of   *)
(*    the registration call that supplied it (every call supplies a new    *)
(*    function), 0 standing for "no handler" (undefined / null).  What a   *)
(*    handler does when invoked is chosen when it is invoked.              *)
(*  - A JSON value that the code only tests for truthiness or passes on is *)
(*    one of a few specimen strings; see Truthy.                           *)
(***************************************************************************)
EXTENDS Integers, Sequences, FiniteSets, TLC

VARIABLES
    tools,              \* Map<string, MCPTool>
    toolHandlers,       \* Map<string, MCPToolHandler>
    resources,          \* Map<string, MCPResource>
    resourceHandlers,   \* Map<string, MCPResourceHandler> (shared by resources and templates)
    resourceTemplates,  \* Map<string, MCPResourceTemplate>
    prompts,            \* Map<string, MCPPrompt>
    promptHandlers,     \* Map<string, MCPPromptHandler>
    samplingHandler,    \* MCPSamplingHandler | null
    serverInfo,         \* fixed at construction
    capabilities,       \* fixed at construction
    logLevel,           \* MCPLogLevel
    nreg,               \* history: number of registration calls made so far
    ghost,              \* history: what each registration entry point was last given, per key
    last,               \* history: the last operation and, for a message, its outcome
    inflight            \* the activations of handleJsonRpcRequest and where each one stands

server == <<tools, toolHandlers, resources, resourceHandlers, resourceTemplates,
            prompts, promptHandlers, samplingHandler, serverInfo, capabilities, logLevel>>
vars == <<tools, toolHandlers, resources, resourceHandlers, resourceTemplates,
          prompts, promptHandlers, samplingHandler, serverInfo, capabilities, logLevel,
          nreg, ghost, last, inflight>>

----------------------------------------------------------------------------
(* Bounds of the exploration. *)

\* registration calls (add*, setSamplingHandler) explored per behaviour
MaxRegs == 3

\* messages received per behaviour, each one an activation of handleJsonRpcRequest
MaxInflight == 2

----------------------------------------------------------------------------
(* JavaScript Map *)

NoHandler == 0

RECURSIVE MapIndex(_, _, _)
MapIndex(m, k, i) ==
    IF i > Len(m) THEN 0
    ELSE IF m[i].k = k THEN i
    ELSE MapIndex(m, k, i + 1)

MapHas(m, k) == MapIndex(m, k, 1) # 0

\* Map.prototype.get, dflt standing for undefined
MapGet(m, k, dflt) ==
    LET i == MapIndex(m, k, 1) IN IF i = 0 THEN dflt ELSE m[i].v

\* a set on a map that holds one entry: a new key evicts the old one
MapSetEvicting(m, k, v) == <<[k |-> k, v |-> v]>>

\* a set that keeps the value a key already has
MapSetKeepFirst(m, k, v) ==
    IF MapIndex(m, k, 1) = 0 THEN Append(m, [k |-> k, v |-> v]) ELSE m

\* Map.prototype.set: replace in place, or append
MapSet(m, k, v) ==
    LET i == MapIndex(m, k, 1) IN
    IF i = 0 THEN Append(m, [k |-> k, v |-> v])
    ELSE [m EXCEPT ![i] = [k |-> k, v |-> v]]

\* Array.from(map.values())
MapValues(m) == [i \in 1..Len(m) |-> m[i].v]

MapKeys(m) == [i \in 1..Len(m) |-> m[i].k]

KeySet(m) == {m[i].k : i \in 1..Len(m)}

----------------------------------------------------------------------------
(* matchesTemplate: template.replace(/\{[^}]+\}/g, '([^/]+)'), then        *)
(* new RegExp('^' + pattern + '$').test(uri).                              *)
(* Of the characters a pattern is built from here, '.' is the one the      *)
(* regular expression does not take literally (it matches any character    *)
(* but a line terminator, and no specimen holds one); a brace left over    *)
(* by the replacement is a literal in a JavaScript RegExp without the u    *)
(* flag.                                                                   *)

Group == "([^/]+)"

\* index of the first "}" at or after i, 0 if none
RECURSIVE FirstClose(_, _)
FirstClose(t, i) ==
    IF i > Len(t) THEN 0
    ELSE IF t[i] = "}" THEN i
    ELSE FirstClose(t, i + 1)

\* the pattern, as a sequence of tokens, left by the replace() from position i on
RECURSIVE ReplacePlaceholders(_, _)
ReplacePlaceholders(t, i) ==
    IF i > Len(t) THEN <<>>
    ELSE LET j == IF t[i] = "{" THEN FirstClose(t, i + 1) ELSE 0 IN
         IF j >= i + 2 THEN <<Group>> \o ReplacePlaceholders(t, j + 1)
         ELSE <<t[i]>> \o ReplacePlaceholders(t, i + 1)

Drop(s, n) == SubSeq(s, n + 1, Len(s))

\* whether the rest of the pattern p matches the whole of u (the pattern is anchored
\* at both ends; a backtracking matcher finds a match whenever one exists)
RECURSIVE RegexTest(_, _)
RegexTest(p, u) ==
    IF p = <<>> THEN u = <<>>
    ELSE IF p[1] = Group THEN
        \E n \in 1..Len(u) :
            /\ \A i \in 1..n : u[i] # "/"
            /\ RegexTest(Tail(p), Drop(u, n))
    ELSE IF p[1] = "." THEN u # <<>> /\ RegexTest(Tail(p), Tail(u))
    ELSE u # <<>> /\ u[1] = p[1] /\ RegexTest(Tail(p), Tail(u))

matchesTemplate(uri, template) == RegexTest(ReplacePlaceholders(template, 1), uri)


----------------------------------------------------------------------------
(* JSON values, as far as the code looks at them *)

Undefined == "undefined"

\* specimen values of one property: absent, null, the empty string, a non-empty string
PropVals == {"undefined", "null", "", "hi"}

\* ToBoolean, on the specimens
Truthy(v) == v \notin {"undefined", "null", "", "0", "false"}

ArgNames == {"x", "y"}

\* params.arguments: absent, null, false, or an object with some of ArgNames
NoProps == [a \in ArgNames |-> "undefined"]
ArgsUndefined == [t |-> "undefined", props |-> NoProps]
ArgsNull == [t |-> "null", props |-> NoProps]
ArgsFalse == [t |-> "false", props |-> NoProps]
ArgsObject(props) == [t |-> "object", props |-> props]
EmptyObject == ArgsObject(NoProps)

\* params.uri: absent, null or a string
UriUndefined == [t |-> "undefined", s |-> <<>>]
UriNull == [t |-> "null", s |-> <<>>]
UriString(s) == [t |-> "string", s |-> s]
UriTruthy(u) == u.t = "string" /\ u.s # <<>>

\* params.messages: absent, null, a string (not an array), or an array of n messages
MsgsUndefined == [t |-> "undefined", n |-> 0]
MsgsNull == [t |-> "null", n |-> 0]
MsgsString == [t |-> "string", n |-> 1]
MsgsArray(n) == [t |-> "array", n |-> n]

\* params: absent, null, or an object of which the code reads these properties
ParamsObject(name, arguments, uri, level, messages) ==
    [t |-> "object", name |-> name, arguments |-> arguments, uri |-> uri,
     level |-> level, messages |-> messages]
ParamsEmptyObject ==
    ParamsObject(Undefined, ArgsUndefined, UriUndefined, Undefined, MsgsUndefined)
ParamsUndefined == [ParamsEmptyObject EXCEPT !.t = "undefined"]
ParamsNull == [ParamsEmptyObject EXCEPT !.t = "null"]

\* the parsed JSON of a body: the properties JsonRpcRequestSchema looks at.
\* id is one of the specimens "undefined" (absent), "null", "1" (a number),
\* "'a'" (a string), "true" (neither); methodType is the JSON type of method.
Envelope(jsonrpc, id, methodType, method, params) ==
    [jsonrpc |-> jsonrpc, id |-> id, methodType |-> methodType, method |-> method,
     params |-> params]

\* a well-formed message
Message(id, method, params) == Envelope("2.0", id, "string", method, params)

\* the text of a POST body: empty, whitespace only, not JSON, or JSON
Body(kind, json) == [kind |-> kind, json |-> json]
JsonBody(json) == Body("json", json)

----------------------------------------------------------------------------
(* Construction: new MCPServer(serverInfo, capabilities = { tools: {} }) *)

DefaultCapabilities == "{tools:{}}"

\* history, per registration entry point: a function from the keys it was called
\* with to the descriptor and handler of the last call, the number of calls, and
\* the ordinal of the first call
EmptyGhost ==
    [tools |-> <<>>, resources |-> <<>>, templates |-> <<>>, prompts |-> <<>>,
     sampling |-> NoHandler]

\* caps is the second argument, Undefined when none is given; given keeps both
\* arguments as they were passed
Constructed(info, caps) ==
    /\ tools = <<>>
    /\ toolHandlers = <<>>
    /\ resources = <<>>
    /\ resourceHandlers = <<>>
    /\ resourceTemplates = <<>>
    /\ prompts = <<>>
    /\ promptHandlers = <<>>
    /\ samplingHandler = NoHandler
    /\ serverInfo = info
    /\ capabilities = IF caps = Undefined THEN DefaultCapabilities ELSE caps
    /\ logLevel = "info"
    /\ nreg = 0
    /\ ghost = [given |-> [serverInfo |-> info, capabilities |-> caps]] @@ EmptyGhost
    /\ last = [op |-> "new"]
    /\ inflight = <<>>

\* new MCPServer(serverInfo)
Init == Constructed("srv/1.0", Undefined)

----------------------------------------------------------------------------
(* Registration.  Each call supplies a new descriptor object and a new     *)
(* handler function, both identified by the call's ordinal; rev stands for *)
(* the descriptor's fields other than its key.                             *)

Remember(g, k, desc, h) ==
    (k :> [desc |-> desc, h |-> h,
           n |-> IF k \in DOMAIN g THEN g[k].n + 1 ELSE 1,
           first |-> IF k \in DOMAIN g THEN g[k].first ELSE h]) @@ g

ToolDescriptor(name, rev) == [name |-> name, rev |-> rev]

addTool(name) ==
    LET h == nreg + 1
        tool == ToolDescriptor(name, h) IN
    /\ nreg < MaxRegs
    /\ tools' = MapSet(tools, tool.name, tool)
    /\ toolHandlers' = MapSet(toolHandlers, tool.name, h)
    /\ nreg' = h
    /\ ghost' = [ghost EXCEPT !.tools = Remember(@, name, tool, h)]
    /\ last' = [op |-> "addTool", name |-> name, h |-> h]
    /\ UNCHANGED <<resources, resourceHandlers, resourceTemplates, prompts,
                   promptHandlers, samplingHandler, serverInfo, capabilities, logLevel,
                   inflight>>

ResourceDescriptor(uri, rev) == [uri |-> uri, rev |-> rev]

addResource(uri) ==
    LET h == nreg + 1
        resource == ResourceDescriptor(uri, h) IN
    /\ nreg < MaxRegs
    /\ resources' = MapSet(resources, resource.uri, resource)
    /\ resourceHandlers' = MapSet(resourceHandlers, resource.uri, h)
    /\ nreg' = h
    /\ ghost' = [ghost EXCEPT !.resources = Remember(@, uri, resource, h)]
    /\ last' = [op |-> "addResource", uri |-> uri, h |-> h]
    /\ UNCHANGED <<tools, toolHandlers, resourceTemplates, prompts,
                   promptHandlers, samplingHandler, serverInfo, capabilities, logLevel,
                   inflight>>

TemplateDescriptor(uriTemplate, rev) == [uriTemplate |-> uriTemplate, rev |-> rev]

addResourceTemplate(uriTemplate) ==
    LET h == nreg + 1
        template == TemplateDescriptor(uriTemplate, h) IN
    /\ nreg < MaxRegs
    /\ resourceTemplates' = MapSet(resourceTemplates, template.uriTemplate, template)
    /\ resourceHandlers' = MapSet(resourceHandlers, template.uriTemplate, h)
    /\ nreg' = h
    /\ ghost' = [ghost EXCEPT !.templates = Remember(@, uriTemplate, template, h)]
    /\ last' = [op |-> "addResourceTemplate", uriTemplate |-> uriTemplate, h |-> h]
    /\ UNCHANGED <<tools, toolHandlers, resources, prompts,
                   promptHandlers, samplingHandler, serverInfo, capabilities, logLevel,
                   inflight>>

\* arguments: the descriptor's argument list, each [name, required]; an absent
\* list and an empty one are the same to the code
PromptDescriptor(name, arguments, rev) ==
    [name |-> name, arguments |-> arguments, rev |-> rev]

\* a registration that stores the prompt's descriptor and forgets its handler
AddPromptDescriptorOnly(name, arguments) ==
    LET h == nreg + 1
        prompt == PromptDescriptor(name, arguments, h) IN
    /\ nreg < MaxRegs
    /\ prompts' = MapSet(prompts, prompt.name, prompt)
    /\ nreg' = h
    /\ ghost' = [ghost EXCEPT !.prompts = Remember(@, name, prompt, h)]
    /\ last' = [op |-> "addPrompt", name |-> name, h |-> h]
    /\ UNCHANGED <<tools, toolHandlers, resources, resourceHandlers, resourceTemplates,
                   promptHandlers, samplingHandler, serverInfo, capabilities, logLevel,
                   inflight>>

addPrompt(name, arguments) ==
    LET h == nreg + 1
        prompt == PromptDescriptor(name, arguments, h) IN
    /\ nreg < MaxRegs
    /\ prompts' = MapSet(prompts, prompt.name, prompt)
    /\ promptHandlers' = MapSet(promptHandlers, prompt.name, h)
    /\ nreg' = h
    /\ ghost' = [ghost EXCEPT !.prompts = Remember(@, name, prompt, h)]
    /\ last' = [op |-> "addPrompt", name |-> name, h |-> h]
    /\ UNCHANGED <<tools, toolHandlers, resources, resourceHandlers, resourceTemplates,
                   samplingHandler, serverInfo, capabilities, logLevel,
                   inflight>>

setSamplingHandler ==
    LET h == nreg + 1 IN
    /\ nreg < MaxRegs
    /\ samplingHandler' = h
    /\ nreg' = h
    /\ ghost' = [ghost EXCEPT !.sampling = h]
    /\ last' = [op |-> "setSamplingHandler", slot |-> h]
    /\ UNCHANGED <<tools, toolHandlers, resources, resourceHandlers, resourceTemplates,
                   prompts, promptHandlers, serverInfo, capabilities, logLevel,
                   inflight>>

setLogLevel(level) ==
    /\ logLevel' = level
    /\ last' = [op |-> "setLogLevel", level |-> level]
    /\ UNCHANGED <<tools, toolHandlers, resources, resourceHandlers, resourceTemplates,
                   prompts, promptHandlers, samplingHandler, serverInfo, capabilities,
                   nreg, ghost, inflight>>

----------------------------------------------------------------------------
(* What a routing branch does: it returns a value or throws, having        *)
(* invoked handlers (calls) and possibly stored a log level.               *)

\* a thrown value: an Error with a message (the text before an interpolated
\* name or uri, and that name or uri), or a value that is not an Error
Error(message, name, uri) ==
    [isError |-> TRUE, message |-> message, name |-> name, uri |-> uri]
NotAnError == [isError |-> FALSE, message |-> "", name |-> "", uri |-> <<>>]
NoError == Error("", "", <<>>)
TypeError(message) == Error(message, "", <<>>)

JsNull == [t |-> "null"]
EmptyResult == [t |-> "{}"]
\* the value handler h resolved with
HandlerValue(h) == [t |-> "result of", h |-> h]

Return(value, calls, level) ==
    [thrown |-> FALSE, value |-> value, error |-> NoError, calls |-> calls, level |-> level]
Throw(error, calls) ==
    [thrown |-> TRUE, value |-> JsNull, error |-> error, calls |-> calls, level |-> logLevel]

\* what an invoked handler may do: resolve with a value, resolve with null,
\* reject with an Error, reject with something else
Outcomes == {"value", "null", "rejectError", "rejectOther"}

\* await handler(...): call is the record of the invocation
Await(h, call, out) ==
    CASE out = "value" -> Return(HandlerValue(h), <<call>>, logLevel)
      [] out = "null" -> Return(JsNull, <<call>>, logLevel)
      [] out = "rejectError" -> Throw(Error("handler failed", "", <<>>), <<call>>)
      [] OTHER -> Throw(NotAnError, <<call>>)

ArgsTruthy(args) == args.t = "object"

handleToolCall(params, out) ==
    IF params.t # "object"
    THEN Throw(TypeError("Cannot destructure property 'name'"), <<>>)
    ELSE LET name == params.name
             args == params.arguments
             handler == MapGet(toolHandlers, name, NoHandler) IN
         IF handler = NoHandler
         THEN Throw(Error("Unknown tool: ", name, <<>>), <<>>)
         ELSE Await(handler,
                    [h |-> handler, args |-> IF ArgsTruthy(args) THEN args ELSE EmptyObject],
                    out)

handleResourcesList == Return([resources |-> MapValues(resources)], <<>>, logLevel)

handleResourceTemplatesList ==
    Return([resourceTemplates |-> MapValues(resourceTemplates)], <<>>, logLevel)

\* the handler of the first entry of resourceHandlers, from index i on, whose key
\* matches uri as a template
RECURSIVE FirstMatch(_, _)
FirstMatch(uri, i) ==
    IF i > Len(resourceHandlers) THEN NoHandler
    ELSE IF matchesTemplate(uri, resourceHandlers[i].k) THEN resourceHandlers[i].v
    ELSE FirstMatch(uri, i + 1)

\* the handler resources/read picks for uri: the direct entry, else the first match
ResolveResource(uri) ==
    LET direct == MapGet(resourceHandlers, uri, NoHandler) IN
    IF direct # NoHandler THEN direct ELSE FirstMatch(uri, 1)

\* a read that hands the handler the key of the entry it resolved
HandleResourceReadPassesKey(params, out) ==
    IF params.t # "object"
    THEN Throw(TypeError("Cannot destructure property 'uri'"), <<>>)
    ELSE IF ~UriTruthy(params.uri)
    THEN Throw(Error("URI is required for resource read", "", <<>>), <<>>)
    ELSE LET uri == params.uri.s
             handler == ResolveResource(uri) IN
         IF handler = NoHandler
         THEN Throw(Error("Resource not found: ", "", uri), <<>>)
         ELSE LET key == (CHOOSE e \in {resourceHandlers[i] : i \in 1..Len(resourceHandlers)} :
                             e.v = handler).k
                  r == Await(handler, [h |-> handler, uri |-> key], out) IN
              IF r.thrown THEN r ELSE [r EXCEPT !.value = [contents |-> <<r.value>>]]

handleResourceRead(params, out) ==
    IF params.t # "object"
    THEN Throw(TypeError("Cannot destructure property 'uri'"), <<>>)
    ELSE IF ~UriTruthy(params.uri)
    THEN Throw(Error("URI is required for resource read", "", <<>>), <<>>)
    ELSE LET uri == params.uri.s
             handler == ResolveResource(uri) IN
         IF handler = NoHandler
         THEN Throw(Error("Resource not found: ", "", uri), <<>>)
         ELSE LET r == Await(handler, [h |-> handler, uri |-> uri], out) IN
              IF r.thrown THEN r ELSE [r EXCEPT !.value = [contents |-> <<r.value>>]]

handlePromptsList == Return([prompts |-> MapValues(prompts)], <<>>, logLevel)

\* args?.[name]
ArgOf(args, name) == IF args.t = "object" THEN args.props[name] ELSE Undefined

\* index of the first required argument of the list, from i on, that args does
\* not hold a truthy value for; 0 if none
RECURSIVE FirstMissing(_, _, _)
FirstMissing(arguments, args, i) ==
    IF i > Len(arguments) THEN 0
    ELSE IF arguments[i].required /\ ~Truthy(ArgOf(args, arguments[i].name)) THEN i
    ELSE FirstMissing(arguments, args, i + 1)

handlePromptGet(params, out) ==
    IF params.t # "object"
    THEN Throw(TypeError("Cannot destructure property 'name'"), <<>>)
    ELSE LET name == params.name
             args == params.arguments IN
         IF ~MapHas(prompts, name)
         THEN Throw(Error("Unknown prompt: ", name, <<>>), <<>>)
         ELSE LET prompt == MapGet(prompts, name, Undefined)
                  handler == MapGet(promptHandlers, name, NoHandler)
                  missing == FirstMissing(prompt.arguments, args, 1) IN
              IF handler = NoHandler
              THEN Throw(Error("No handler for prompt: ", name, <<>>), <<>>)
              ELSE IF missing # 0
              THEN Throw(Error("Required argument missing: ",
                               prompt.arguments[missing].name, <<>>), <<>>)
              ELSE Await(handler,
                         [h |-> handler,
                          args |-> IF ArgsTruthy(args) THEN args ELSE EmptyObject],
                         out)

handleSampling(params, out) ==
    IF samplingHandler = NoHandler
    THEN Throw(Error("Sampling handler not configured", "", <<>>), <<>>)
    ELSE IF params.t # "object"
    THEN Throw(TypeError("Cannot read properties of undefined (reading 'messages')"), <<>>)
    ELSE IF params.messages.t # "array" \/ params.messages.n = 0
    THEN Throw(Error("Messages array is required and cannot be empty", "", <<>>), <<>>)
    ELSE Await(samplingHandler, [h |-> samplingHandler, request |-> params], out)

\* a logging/setLevel that accepts the eight levels of MCPLogLevel only
HandleSetLogLevelChecked(params) ==
    IF params.t # "object"
    THEN Throw(TypeError("Cannot destructure property 'level'"), <<>>)
    ELSE IF params.level \notin {"debug", "info", "notice", "warning", "error", "critical",
                                 "alert", "emergency"}
    THEN Throw(Error("Log level is required", "", <<>>), <<>>)
    ELSE Return(EmptyResult, <<>>, params.level)

\* a logging/setLevel that stores the level before it validates it
HandleSetLogLevelStoreFirst(params) ==
    IF params.t # "object"
    THEN Throw(TypeError("Cannot destructure property 'level'"), <<>>)
    ELSE IF ~Truthy(params.level)
    THEN [Throw(Error("Log level is required", "", <<>>), <<>>) EXCEPT !.level = params.level]
    ELSE Return(EmptyResult, <<>>, params.level)

handleSetLogLevel(params) ==
    IF params.t # "object"
    THEN Throw(TypeError("Cannot destructure property 'level'"), <<>>)
    ELSE IF ~Truthy(params.level)
    THEN Throw(Error("Log level is required", "", <<>>), <<>>)
    ELSE Return(EmptyResult, <<>>, params.level)

ProtocolVersion == "2024-11-05"

\* an initialize that advertises what is registered
HandleInitializeAdvertiseRegistered(params) ==
    Return([protocolVersion |-> ProtocolVersion,
            capabilities |-> IF tools # <<>> THEN "{tools:{}}" ELSE "{}",
            serverInfo |-> serverInfo], <<>>, logLevel)

handleInitialize(params) ==
    Return([protocolVersion |-> ProtocolVersion, capabilities |-> capabilities,
            serverInfo |-> serverInfo], <<>>, logLevel)

processJsonRpcMethod(request, out) ==
    CASE request.method = "initialize" -> handleInitialize(request.params)
      [] request.method = "notifications/initialized" -> Return(JsNull, <<>>, logLevel)
      [] request.method = "tools/list" ->
            Return([tools |-> MapValues(tools)], <<>>, logLevel)
      [] request.method = "tools/call" -> handleToolCall(request.params, out)
      [] request.method = "resources/list" -> handleResourcesList
      [] request.method = "resources/templates/list" -> handleResourceTemplatesList
      [] request.method = "resources/read" -> handleResourceRead(request.params, out)
      [] request.method = "prompts/list" -> handlePromptsList
      [] request.method = "prompts/get" -> handlePromptGet(request.params, out)
      [] request.method = "sampling/createMessage" -> handleSampling(request.params, out)
      [] request.method = "logging/setLevel" -> handleSetLogLevel(request.params)
      [] OTHER -> Throw(Error("Unknown method: ", request.method, <<>>), <<>>)

----------------------------------------------------------------------------
(* handleJsonRpcRequest: decode, route, shape the response *)

InternalErrorCode == -32603

\* a schema that does not look at the id
SchemaAcceptsAnyId(json) ==
    /\ json.jsonrpc = "2.0"
    /\ json.methodType = "string"

\* JsonRpcRequestSchema.parse succeeds
SchemaAccepts(json) ==
    /\ json.jsonrpc = "2.0"
    /\ json.id \in {"undefined", "null", "1", "'a'"}
    /\ json.methodType = "string"

NoContent ==
    [status |-> 204, kind |-> "none", id |-> "undefined", result |-> JsNull,
     code |-> 0, error |-> NoError]

\* the 200 response carrying { jsonrpc: '2.0', id: request.id ?? null, result }
ResultResponse(id, result) ==
    [status |-> 200, kind |-> "result",
     id |-> IF id \in {"undefined", "null"} THEN "null" ELSE id,
     result |-> result, code |-> 0, error |-> NoError]

\* an error response that answers an unknown method with the status of a
\* missing page
CreateErrorResponseNotFound(error, id) ==
    [status |-> IF error.message = "Unknown method: " THEN 404 ELSE 500,
     kind |-> "error", id |-> id, result |-> JsNull, code |-> InternalErrorCode,
     error |-> IF error.isError THEN error ELSE Error("Internal error", "", <<>>)]

\* an error response that says more at log level debug
CreateErrorResponseVerbose(error, id) ==
    [status |-> 500, kind |-> "error", id |-> id, result |-> JsNull,
     code |-> InternalErrorCode,
     error |-> IF ~error.isError THEN Error("Internal error", "", <<>>)
               ELSE IF logLevel = "debug" THEN [error EXCEPT !.message = "debug: stack"]
               ELSE error]

\* an error response that reads message off whatever was thrown
CreateErrorResponseAnyMessage(error, id) ==
    [status |-> 500, kind |-> "error", id |-> id, result |-> JsNull,
     code |-> InternalErrorCode, error |-> error]

\* error.message, or 'Internal error' when the thrown value is not an Error
createErrorResponse(error, id) ==
    [status |-> 500, kind |-> "error", id |-> id, result |-> JsNull,
     code |-> InternalErrorCode,
     error |-> IF error.isError THEN error
               ELSE Error("Internal error", "", <<>>)]

Handled(response, r, decoded) ==
    [response |-> response, calls |-> r.calls, level |-> r.level, decoded |-> decoded]

\* a boundary without the null check: it answers 200 with a null result
HandleJsonRpcRequestNoNullCheck(body, out) ==
    IF body.kind \in {"empty", "blank"}
    THEN Handled(createErrorResponse(TypeError("Empty request body"), "null"),
                 Throw(NoError, <<>>), FALSE)
    ELSE IF body.kind # "json"
    THEN Handled(createErrorResponse(TypeError("SyntaxError: not valid JSON"), "null"),
                 Throw(NoError, <<>>), FALSE)
    ELSE IF ~SchemaAccepts(body.json)
    THEN Handled(createErrorResponse(TypeError("ZodError: invalid envelope"), "null"),
                 Throw(NoError, <<>>), FALSE)
    ELSE LET r == processJsonRpcMethod(body.json, out) IN
         IF r.thrown THEN Handled(createErrorResponse(r.error, "null"), r, TRUE)
         ELSE Handled(ResultResponse(body.json.id, r.value), r, TRUE)

handleJsonRpcRequest(body, out) ==
    IF body.kind \in {"empty", "blank"}
    THEN Handled(createErrorResponse(TypeError("Empty request body"), "null"),
                 Throw(NoError, <<>>), FALSE)
    ELSE IF body.kind # "json"
    THEN Handled(createErrorResponse(TypeError("SyntaxError: not valid JSON"), "null"),
                 Throw(NoError, <<>>), FALSE)
    ELSE IF ~SchemaAccepts(body.json)
    THEN Handled(createErrorResponse(TypeError("ZodError: invalid envelope"), "null"),
                 Throw(NoError, <<>>), FALSE)
    ELSE LET r == processJsonRpcMethod(body.json, out) IN
         IF r.thrown THEN Handled(createErrorResponse(r.error, "null"), r, TRUE)
         ELSE IF r.value = JsNull THEN Handled(NoContent, r, TRUE)
         ELSE Handled(ResultResponse(body.json.id, r.value), r, TRUE)

\* handleRequest for a POST with this body; out is what the handler it invokes,
\* if it invokes one, does
post(body, out) ==
    LET r == handleJsonRpcRequest(body, out) IN
    /\ logLevel' = r.level
    /\ last' = [op |-> "post", body |-> body,
                out |-> IF r.calls = <<>> THEN "none" ELSE out,
                response |-> r.response, calls |-> r.calls, decoded |-> r.decoded]
    /\ UNCHANGED <<tools, toolHandlers, resources, resourceHandlers, resourceTemplates,
                   prompts, promptHandlers, samplingHandler, serverInfo, capabilities,
                   nreg, ghost, inflight>>

----------------------------------------------------------------------------
(* handleRequest: the HTTP boundary *)

\* an HTTP request: its method, the pathname of its URL, its sessionId query
\* parameter ("absent" when the URL has none, "" when it is given empty) and
\* the text of its body
Request(method, pathname, sessionId, body) ==
    [method |-> method, pathname |-> pathname, sessionId |-> sessionId, body |-> body]

\* an HTTP response: status, headers, and the body as text or as JSON
Response(status, headers, text, json) ==
    [status |-> status, headers |-> headers, text |-> text, json |-> json]

createCorsResponse ==
    Response(204, {"Access-Control-Allow-Origin: *",
                   "Access-Control-Allow-Methods: GET, POST, OPTIONS",
                   "Access-Control-Allow-Headers: Content-Type"}, "", JsNull)

createSSEResponse ==
    Response(200, {"Content-Type: text/event-stream", "Cache-Control: no-cache",
                   "Connection: keep-alive", "Access-Control-Allow-Origin: *"},
             "data: {type:connected}", JsNull)

\* a GET handler that looks for the sessionId before it looks at the path
HandleGetRequestSessionFirst(request) ==
    IF request.sessionId # "absent" THEN createSSEResponse
    ELSE IF request.pathname = "/tools/list"
    THEN Response(200, {"Content-Type: application/json", "Access-Control-Allow-Origin: *"},
                  "", [tools |-> MapValues(tools)])
    ELSE Response(404, {}, "Not found", JsNull)

handleGetRequest(request) ==
    IF request.pathname = "/tools/list"
    THEN Response(200, {"Content-Type: application/json", "Access-Control-Allow-Origin: *"},
                  "", [tools |-> MapValues(tools)])
    ELSE IF request.sessionId # "absent" THEN createSSEResponse
    ELSE Response(404, {}, "Not found", JsNull)

\* the HTTP response carrying a JSON-RPC response
JsonRpcResponse(response) ==
    Response(response.status,
             IF response.kind = "none" THEN {}
             ELSE {"Content-Type: application/json", "Access-Control-Allow-Origin: *"},
             "", response)

\* handleRequest; out is what the handler a POST invokes, if it invokes one, does
handleRequest(request, out) ==
    LET r == handleJsonRpcRequest(request.body, out)
        response == CASE request.method = "OPTIONS" -> createCorsResponse
                      [] request.method = "GET" -> handleGetRequest(request)
                      [] request.method = "POST" -> JsonRpcResponse(r.response)
                      [] OTHER -> Response(405, {}, "Method not allowed", JsNull)
    IN
    /\ logLevel' = IF request.method = "POST" THEN r.level ELSE logLevel
    /\ last' = [op |-> "handleRequest", request |-> request,
                out |-> IF request.method = "POST" /\ r.calls # <<>> THEN out ELSE "none",
                responses |-> <<response>>,
                calls |-> IF request.method = "POST" THEN r.calls ELSE <<>>]
    /\ UNCHANGED <<tools, toolHandlers, resources, resourceHandlers, resourceTemplates,
                   prompts, promptHandlers, samplingHandler, serverInfo, capabilities,
                   nreg, ghost, inflight>>

----------------------------------------------------------------------------
(* handleJsonRpcRequest as the event loop runs it.  An activation stops at   *)
(* each await: at "text" for request.text(), at "handler" for the promise    *)
(* of the handler it invoked, at "resume" once that promise (or the promise  *)
(* of a branch that invokes no handler) has settled; at "returned" it has    *)
(* returned its response.  What runs between two awaits runs to completion.  *)

\* the continuation of an activation that has not been routed yet
Unrouted ==
    [o \in Outcomes |->
        [response |-> NoContent, calls |-> <<>>, level |-> "info", decoded |-> FALSE]]

\* an activation; k is what the activation goes on to return for each way the
\* handler it awaits may settle, closed over the locals of the activation
Activation(body, at, k, out, responses) ==
    [body |-> body, at |-> at, k |-> k, calls |-> k["value"].calls, out |-> out,
     responses |-> responses]

\* what the activation returns once the awaited promise has settled
Outcome(a) == a.k[IF a.out \in Outcomes THEN a.out ELSE "value"]

\* handleRequest is called with a POST: the activation awaits the body text
receive(body) ==
    /\ inflight' = Append(inflight, Activation(body, "text", Unrouted, "pending", <<>>))
    /\ last' = [op |-> "handleJsonRpcRequest"]
    /\ UNCHANGED <<server, nreg, ghost>>

\* a dispatch that waits while another activation awaits its handler
DispatchOneAtATime(i) ==
    /\ i \in DOMAIN inflight
    /\ inflight[i].at = "text"
    /\ \A j \in DOMAIN inflight : inflight[j].at # "handler"
    /\ LET k == [o \in Outcomes |-> handleJsonRpcRequest(inflight[i].body, o)] IN
       /\ inflight' = [inflight EXCEPT ![i] =
                          IF k["value"].calls = <<>>
                          THEN Activation(@.body, "resume", k, "none", <<>>)
                          ELSE Activation(@.body, "handler", k, "pending", <<>>)]
       /\ logLevel' = k["value"].level
    /\ last' = [op |-> "handleJsonRpcRequest"]
    /\ UNCHANGED <<tools, toolHandlers, resources, resourceHandlers, resourceTemplates,
                   prompts, promptHandlers, samplingHandler, serverInfo, capabilities,
                   nreg, ghost>>

\* the body text is there: decode, route, resolve the handler and invoke it
dispatch(i) ==
    /\ i \in DOMAIN inflight
    /\ inflight[i].at = "text"
    /\ LET k == [o \in Outcomes |-> handleJsonRpcRequest(inflight[i].body, o)] IN
       /\ inflight' = [inflight EXCEPT ![i] =
                          IF k["value"].calls = <<>>
                          THEN Activation(@.body, "resume", k, "none", <<>>)
                          ELSE Activation(@.body, "handler", k, "pending", <<>>)]
       /\ logLevel' = k["value"].level
    /\ last' = [op |-> "handleJsonRpcRequest"]
    /\ UNCHANGED <<tools, toolHandlers, resources, resourceHandlers, resourceTemplates,
                   prompts, promptHandlers, samplingHandler, serverInfo, capabilities,
                   nreg, ghost>>

\* the promise of the invoked handler settles
settle(i, out) ==
    /\ i \in DOMAIN inflight
    /\ inflight[i].at = "handler"
    /\ inflight' = [inflight EXCEPT ![i] = Activation(@.body, "resume", @.k, out, <<>>)]
    /\ last' = [op |-> "handleJsonRpcRequest"]
    /\ UNCHANGED <<server, nreg, ghost>>

\* an activation that gives up on a pending handler and answers with an error
ResumeOrTimeOut(i) ==
    /\ i \in DOMAIN inflight
    /\ inflight[i].at \in {"handler", "resume"}
    /\ inflight' = [inflight EXCEPT ![i] =
                       Activation(@.body, "returned", @.k, @.out,
                                  Append(@.responses,
                                         IF @.at = "handler"
                                         THEN createErrorResponse(TypeError("timed out"), "null")
                                         ELSE Outcome(@).response))]
    /\ last' = [op |-> "handleJsonRpcRequest"]
    /\ UNCHANGED <<server, nreg, ghost>>

\* an activation that looks the handler's registration up again when it resumes
ResumeLookingUpAgain(i) ==
    /\ i \in DOMAIN inflight
    /\ inflight[i].at = "resume"
    /\ inflight' = [inflight EXCEPT ![i] =
                       Activation(@.body, "returned", @.k, @.out,
                                  Append(@.responses,
                                         handleJsonRpcRequest(@.body,
                                            IF @.out \in Outcomes THEN @.out ELSE "value")
                                            .response))]
    /\ last' = [op |-> "handleJsonRpcRequest"]
    /\ UNCHANGED <<server, nreg, ghost>>

\* the activation resumes after its await and returns its response
resume(i) ==
    /\ i \in DOMAIN inflight
    /\ inflight[i].at = "resume"
    /\ inflight' = [inflight EXCEPT ![i] =
                       Activation(@.body, "returned", @.k, @.out,
                                  Append(@.responses, Outcome(@).response))]
    /\ last' = [op |-> "handleJsonRpcRequest"]
    /\ UNCHANGED <<server, nreg, ghost>>

----------------------------------------------------------------------------
(* The inputs explored *)

ToolNames == {"t1", "t2"}
PromptNames == {"p1", "p2"}

Arg(name, required) == [name |-> name, required |-> required]
BothRequired == <<Arg("x", TRUE), Arg("y", TRUE)>>
SecondRequired == <<Arg("x", FALSE), Arg("y", TRUE)>>

\* "a/b", "a.b", "a/{x}", "{x}/b"
UriAB == <<"a", "/", "b">>
UriADotB == <<"a", ".", "b">>
TemplateAX == <<"a", "/", "{", "x", "}">>
TemplateXB == <<"{", "x", "}", "/", "b">>

\* resource URIs and templates registered; "a/b" is registered as either
ResourceUris == {UriAB, UriADotB}
TemplateStrings == {TemplateAX, TemplateXB, UriAB}
ReadUris == {UriAB, UriADotB, TemplateAX, TemplateXB}

LogLevels == {"debug", "loud"}

ReadParams(uris) ==
    {ParamsUndefined}
    \cup {ParamsObject(Undefined, ArgsUndefined, u, Undefined, MsgsUndefined) :
            u \in {UriUndefined, UriString(<<>>)} \cup {UriString(s) : s \in uris}}

ArgsSpecimens(vals) ==
    {ArgsUndefined, ArgsNull, ArgsFalse} \cup {ArgsObject(p) : p \in [ArgNames -> vals]}

CallParams(names, args) ==
    {ParamsObject(n, a, UriUndefined, Undefined, MsgsUndefined) : n \in names, a \in args}

SamplingParams ==
    {ParamsUndefined, ParamsNull}
    \cup {ParamsObject(Undefined, ArgsUndefined, UriUndefined, Undefined, m) :
            m \in {MsgsUndefined, MsgsNull, MsgsString, MsgsArray(0), MsgsArray(2)}}

LevelParams ==
    {ParamsUndefined}
    \cup {ParamsObject(Undefined, ArgsUndefined, UriUndefined, l, MsgsUndefined) :
            l \in LogLevels \cup {Undefined, ""}}

AnyParams == {ParamsUndefined, ParamsNull, ParamsEmptyObject}

Messages(ids, methods, params) ==
    {JsonBody(Message(id, m, p)) : id \in ids, m \in methods, p \in params}

ListMessages ==
    Messages({"1"}, {"tools/list", "resources/list", "resources/templates/list",
                     "prompts/list"}, {ParamsUndefined})

\* whether handling the message invokes a handler
Invokes(body) == handleJsonRpcRequest(body, "value").calls # <<>>

\* what the handler a message invokes may do: a tool handler resolves with any
\* value (MCPToolHandler<T = any, R = any>), the others with an object of their
\* declared result type.  "none" when the message invokes no handler.
OutcomesOf(body) ==
    IF ~Invokes(body) THEN {"none"}
    ELSE IF body.json.method = "tools/call" THEN Outcomes
    ELSE Outcomes \ {"null"}

----------------------------------------------------------------------------
(* The resource registries and resources/read *)

ResourceMessages ==
    Messages({"1"}, {"resources/read"}, ReadParams(ReadUris))
    \cup Messages({"1"}, {"resources/list", "resources/templates/list"}, {ParamsUndefined})

RegisterResource == \E uri \in ResourceUris : addResource(uri)
RegisterTemplate == \E t \in TemplateStrings : addResourceTemplate(t)
PostResource == \E body \in ResourceMessages : \E out \in OutcomesOf(body) : post(body, out)

NextResources == RegisterResource \/ RegisterTemplate \/ PostResource
SpecResources == Init /\ [][NextResources]_vars

(* The tool registry and tools/call *)

ToolMessages ==
    Messages({"1"}, {"tools/call"},
             {ParamsUndefined}
             \cup CallParams(ToolNames \cup {Undefined, "other"},
                             ArgsSpecimens({"undefined", "hi"})))
    \cup Messages({"1"}, {"tools/list"}, {ParamsUndefined})

RegisterTool == \E name \in ToolNames : addTool(name)
PostTool == \E body \in ToolMessages : \E out \in OutcomesOf(body) : post(body, out)

NextTools == RegisterTool \/ PostTool
SpecTools == Init /\ [][NextTools]_vars

(* The prompt registry and prompts/get *)

PromptSpecimens ==
    { <<"p1", BothRequired>>, <<"p1", SecondRequired>>, <<"p2", BothRequired>>,
      <<"p2", <<>> >> }

PromptMessages ==
    Messages({"1"}, {"prompts/get"},
             {ParamsUndefined}
             \cup CallParams(PromptNames \cup {"other"},
                             ArgsSpecimens({"undefined", "", "hi"})))
    \cup Messages({"1"}, {"prompts/list"}, {ParamsUndefined})

RegisterPrompt == \E p \in PromptSpecimens : addPrompt(p[1], p[2])
PostPrompt == \E body \in PromptMessages : \E out \in OutcomesOf(body) : post(body, out)

NextPrompts == RegisterPrompt \/ PostPrompt
SpecPrompts == Init /\ [][NextPrompts]_vars

(* The sampling slot, the log level, sampling/createMessage, logging/setLevel *)

SettingMessages ==
    Messages({"1", "undefined"}, {"sampling/createMessage"}, SamplingParams)
    \cup Messages({"1"}, {"logging/setLevel"}, LevelParams)

SetSampling == setSamplingHandler
SetLevel == \E level \in LogLevels : setLogLevel(level)
PostSetting == \E body \in SettingMessages : \E out \in OutcomesOf(body) : post(body, out)

NextSettings == SetSampling \/ SetLevel \/ PostSetting
SpecSettings == Init /\ [][NextSettings]_vars

(* Every registry: the registrations and the listings *)

RegisterAny ==
    \/ \E name \in ToolNames : addTool(name)
    \/ \E uri \in ResourceUris : addResource(uri)
    \/ \E t \in {TemplateAX, UriAB} : addResourceTemplate(t)
    \/ \E name \in PromptNames : addPrompt(name, BothRequired)
    \/ setSamplingHandler
PostList == \E body \in ListMessages : post(body, "none")

NextRegistries == RegisterAny \/ PostList
SpecRegistries == Init /\ [][NextRegistries]_vars

(* The whole server *)

AllMessages ==
    ListMessages
    \cup Messages({"undefined", "1"}, {"notifications/initialized"}, AnyParams)
    \cup Messages({"1"}, {"tools/call"}, CallParams({"t1"}, {ArgsUndefined}))
    \cup Messages({"1"}, {"resources/read"},
                  {ParamsObject(Undefined, ArgsUndefined, UriString(UriAB), Undefined,
                                MsgsUndefined)})
    \cup Messages({"1"}, {"prompts/get"}, CallParams({"p1"}, {ArgsUndefined}))
    \cup Messages({"1"}, {"sampling/createMessage"}, {ParamsUndefined})
    \cup Messages({"1"}, {"logging/setLevel"},
                  {ParamsObject(Undefined, ArgsUndefined, UriUndefined, "debug",
                                MsgsUndefined)})
    \cup Messages({"1"}, {"initialize", "unknown/method"}, {ParamsUndefined})
    \cup {Body("empty", Message("undefined", "", ParamsUndefined))}

AddTool == addTool("t1")
AddResource == addResource(UriAB)
AddResourceTemplate == \E t \in {UriAB, TemplateAX} : addResourceTemplate(t)
AddPrompt == addPrompt("p1", <<>>)
Post == \E body \in AllMessages : \E out \in {"value", "none"} \cap OutcomesOf(body) : post(body, out)

Next ==
    \/ AddTool
    \/ AddResource
    \/ AddResourceTemplate
    \/ AddPrompt
    \/ SetSampling
    \/ Post
Spec == Init /\ [][Next]_vars

(* The envelope: bodies of every kind, ids of every kind, handlers that    *)
(* resolve or reject                                                       *)

EnvelopeIds == {"undefined", "null", "1", "'a'"}

\* bodies that are not decoded: empty, whitespace only, not JSON, a wrong version
\* tag, an id that is neither a string, a number nor null, a method that is no string
MalformedBodies ==
    {Body(k, Message("undefined", "", ParamsUndefined)) : k \in {"empty", "blank", "text"}}
    \cup {JsonBody(Envelope("1.0", "1", "string", "tools/list", ParamsUndefined)),
          JsonBody(Envelope("2.0", "true", "string", "tools/list", ParamsUndefined)),
          JsonBody(Envelope("2.0", "1", "number", "", ParamsUndefined))}

EnvelopeMessages ==
    Messages(EnvelopeIds, {"initialize", "notifications/initialized", "tools/list",
                           "unknown/method"}, {ParamsUndefined})
    \cup Messages(EnvelopeIds, {"tools/call"}, CallParams({"t1"}, {ArgsUndefined}))
    \cup Messages({"1"}, {"tools/call"}, {ParamsUndefined})
    \cup Messages({"1"}, {""}, {ParamsUndefined})
    \cup Messages({"1"}, {"resources/read"},
                  {ParamsObject(Undefined, ArgsUndefined, UriString(UriAB), Undefined,
                                MsgsUndefined)})
    \cup Messages({"1"}, {"prompts/get"}, CallParams({"p1"}, {ArgsUndefined}))
    \cup Messages({"1"}, {"sampling/createMessage"},
                  {ParamsObject(Undefined, ArgsUndefined, UriUndefined, Undefined,
                                MsgsArray(2))})
    \cup Messages({"undefined", "1"}, {"logging/setLevel"},
                  {ParamsObject(Undefined, ArgsUndefined, UriUndefined, l, MsgsUndefined) :
                     l \in {Undefined, "debug"}})
    \cup MalformedBodies

RegisterEnvelope == AddTool \/ AddResource \/ SetSampling
PostEnvelope == \E body \in EnvelopeMessages : \E out \in OutcomesOf(body) : post(body, out)

NextEnvelope == RegisterEnvelope \/ PostEnvelope
SpecEnvelope == Init /\ [][NextEnvelope]_vars

(* Construction with any identity and capability set, and initialize *)

ServerInfos == {"srv/1.0", "other/2.0"}
CapabilitySets == {"{}", "{tools:{},resources:{},prompts:{},sampling:{},logging:{}}"}

InitAny ==
    \E info \in ServerInfos : \E caps \in CapabilitySets \cup {Undefined} :
        Constructed(info, caps)

InitializeMessages ==
    Messages({"undefined", "1"}, {"initialize"},
             AnyParams \cup CallParams({"t1"}, {EmptyObject}))
    \cup Messages({"1"}, {"logging/setLevel"},
                  {ParamsObject(Undefined, ArgsUndefined, UriUndefined, "debug",
                                MsgsUndefined)})

PostInitialize == \E body \in InitializeMessages : post(body, "none")

NextInitialize ==
    \/ AddTool
    \/ AddResource
    \/ AddPrompt
    \/ SetSampling
    \/ SetLevel
    \/ PostInitialize
SpecInitialize == InitAny /\ [][NextInitialize]_vars

(* matchesTemplate on every uri and template up to a length *)

MaxUriLen == 3
MaxTemplateLen == 4

UriChars == {"a", "/", "."}
TemplateChars == {"a", "/", ".", "{", "}"}

Strings(chars, n) == UNION {[1..k -> chars] : k \in 0..n}

\* one call, on a server as constructed (the function reads no field of it)
Match ==
    /\ last.op = "new"
    /\ \E uri \in Strings(UriChars, MaxUriLen) :
         \E template \in Strings(TemplateChars, MaxTemplateLen) :
            /\ last' = [op |-> "matchesTemplate", uri |-> uri, template |-> template,
                        result |-> matchesTemplate(uri, template)]
            /\ UNCHANGED <<server, nreg, ghost, inflight>>

SpecMatcher == Init /\ [][Match]_vars

(* The whole server, with setLogLevel *)

LevelMessages ==
    Messages({"1"}, {"tools/call"}, CallParams({"t1"}, {ArgsUndefined}))
    \cup Messages({"1"}, {"unknown/method"}, {ParamsUndefined})
    \cup Messages({"1"}, {"logging/setLevel"},
                  {ParamsObject(Undefined, ArgsUndefined, UriUndefined, "debug",
                                MsgsUndefined)})

PostLevels == \E body \in LevelMessages : \E out \in OutcomesOf(body) : post(body, out)

NextLevels ==
    \/ AddTool
    \/ AddResource
    \/ AddResourceTemplate
    \/ AddPrompt
    \/ SetSampling
    \/ SetLevel
    \/ PostLevels
SpecLevels == Init /\ [][NextLevels]_vars

(* The HTTP boundary *)

HttpMethods == {"OPTIONS", "GET", "POST", "PUT", "DELETE", "HEAD"}
Pathnames == {"/tools/list", "/tools/list/", "/", "/sse"}
SessionIds == {"absent", "", "s1"}
EmptyBody == Body("empty", Message("undefined", "", ParamsUndefined))
HttpBodies ==
    {EmptyBody}
    \cup Messages({"1"}, {"tools/list", "notifications/initialized", "logging/setLevel"},
                  {ParamsUndefined})
    \cup Messages({"1"}, {"tools/call"}, CallParams({"t1"}, {ArgsUndefined}))
\* requests without a body in every method, and POST requests with a body
Requests ==
    {Request(method, p, s, EmptyBody) :
        method \in HttpMethods, p \in Pathnames, s \in SessionIds}
    \cup {Request("POST", p, s, b) :
            p \in {"/", "/tools/list"}, s \in {"absent", "s1"}, b \in HttpBodies}

AddAnyTool == \E name \in ToolNames : addTool(name)
HandleRequest ==
    \E request \in Requests : \E out \in OutcomesOf(request.body) : handleRequest(request, out)

NextHttp == AddAnyTool \/ HandleRequest
SpecHttp == Init /\ [][NextHttp]_vars

(* Messages in flight, interleaved with registrations *)

InflightMessages ==
    Messages({"1"}, {"tools/call"}, CallParams({"t1"}, {ArgsUndefined}))
    \cup Messages({"'a'"}, {"sampling/createMessage"},
                  {ParamsObject(Undefined, ArgsUndefined, UriUndefined, Undefined,
                                MsgsArray(2))})

Receive == \E body \in InflightMessages : Len(inflight) < MaxInflight /\ receive(body)
Dispatch == \E i \in 1..MaxInflight : dispatch(i)
Settle == \E i \in 1..MaxInflight : \E out \in {"value", "rejectError"} : settle(i, out)
Resume == \E i \in 1..MaxInflight : resume(i)

NextInflight == AddTool \/ SetSampling \/ Receive \/ Dispatch \/ Settle \/ Resume
SpecInflight == Init /\ [][NextInflight]_vars

(* The event loop: messages in flight on a server whose tool and sampling    *)
(* handler are registered once                                               *)

AddToolOnce == tools = <<>> /\ addTool("t1")
SetSamplingOnce == samplingHandler = NoHandler /\ setSamplingHandler

NextEventLoop ==
    AddToolOnce \/ SetSamplingOnce \/ Receive \/ Dispatch \/ Settle \/ Resume

\* the event loop runs every continuation that is ready: an activation whose
\* body text is there is dispatched and one whose awaited promise has settled
\* resumes.  Nothing makes a handler's promise settle.
SpecEventLoop ==
    /\ Init /\ [][NextEventLoop]_vars
    /\ \A i \in 1..MaxInflight : WF_vars(dispatch(i)) /\ WF_vars(resume(i))

(* The prompt builders: createSimplePrompt and createMultiStepPrompt.  Text  *)
(* is a sequence of characters; args is Object.entries(args), the entries in *)
(* insertion order, an entry with defined = FALSE holding undefined.         *)

\* `{{${key}}}`
Placeholder(key) == <<"{", "{", key, "}", "}">>

\* s holds p at index i
HoldsAt(s, i, p) == i + Len(p) - 1 <= Len(s) /\ SubSeq(s, i, i + Len(p) - 1) = p

\* the replacement string of String.prototype.replace with the match filled in:
\* "$$" inserts "$" and "$&" the matched text (the pattern has no groups, and no
\* specimen holds "$`" or "$'")
RECURSIVE Expand(_, _)
Expand(replacement, matched) ==
    IF replacement = <<>> THEN <<>>
    ELSE IF HoldsAt(replacement, 1, <<"$", "$">>)
    THEN <<"$">> \o Expand(Drop(replacement, 2), matched)
    ELSE IF HoldsAt(replacement, 1, <<"$", "&">>)
    THEN matched \o Expand(Drop(replacement, 2), matched)
    ELSE <<replacement[1]>> \o Expand(Drop(replacement, 1), matched)

\* s.replace(new RegExp(escaped p, 'g'), replacement), from index i on: the
\* matches are found left to right in s, and what is inserted is not searched
RECURSIVE ReplaceAll(_, _, _, _)
ReplaceAll(s, i, p, replacement) ==
    IF i > Len(s) THEN <<>>
    ELSE IF HoldsAt(s, i, p)
    THEN Expand(replacement, p) \o ReplaceAll(s, i + Len(p), p, replacement)
    ELSE <<s[i]>> \o ReplaceAll(s, i + 1, p, replacement)

\* the loop over Object.entries(args), from entry i on
RECURSIVE ProcessedContent(_, _, _)
ProcessedContent(text, args, i) ==
    IF i > Len(args) THEN text
    ELSE ProcessedContent(IF args[i].defined
                          THEN ReplaceAll(text, 1, Placeholder(args[i].key), args[i].value)
                          ELSE text,
                          args, i + 1)

\* the handler createSimplePrompt returns, called with args
createSimplePrompt(messageContent, args) ==
    /\ last.op = "new"
    /\ last' = [op |-> "createSimplePrompt", texts |-> <<messageContent>>, args |-> args,
                messages |-> <<ProcessedContent(messageContent, args, 1)>>]
    /\ UNCHANGED <<server, nreg, ghost, inflight>>

\* the handler createMultiStepPrompt returns, called with args
createMultiStepPrompt(steps, args) ==
    /\ last.op = "new"
    /\ last' = [op |-> "createMultiStepPrompt", texts |-> steps, args |-> args,
                messages |-> [s \in 1..Len(steps) |-> ProcessedContent(steps[s], args, 1)]]
    /\ UNCHANGED <<server, nreg, ghost, inflight>>

TemplateTexts ==
    {<<>>, <<"x">>, Placeholder("a"), Placeholder("b"), Placeholder("c"),
     Placeholder("a") \o Placeholder("b"),
     Placeholder("a") \o <<"x">> \o Placeholder("a"),
     <<"{", "{", "a", "}">>}
StepTexts == {Placeholder("a"), <<"x">> \o Placeholder("b")}
ArgValues == {<<>>, <<"v">>, Placeholder("a"), Placeholder("b"), <<"$", "&">>}
ArgEntry(key) ==
    {[key |-> key, defined |-> TRUE, value |-> v] : v \in ArgValues}
    \cup {[key |-> key, defined |-> FALSE, value |-> <<>>]}
\* {}, {a}, {b}, {a, b} and {b, a}
ArgObjects ==
    {<<>>}
    \cup {<<e>> : e \in ArgEntry("a") \cup ArgEntry("b")}
    \cup {<<e, f>> : e \in ArgEntry("a"), f \in ArgEntry("b")}
    \cup {<<f, e>> : e \in ArgEntry("a"), f \in ArgEntry("b")}

SimplePrompt == \E t \in TemplateTexts : \E args \in ArgObjects : createSimplePrompt(t, args)
MultiStepPrompt ==
    \E s1, s2 \in StepTexts : \E args \in ArgObjects : createMultiStepPrompt(<<s1, s2>>, args)

NextPromptText == SimplePrompt \/ MultiStepPrompt
SpecPromptText == Init /\ [][NextPromptText]_vars

(* The sampling request builders.  An option is written as its source text,  *)
(* "undefined" when the caller gives none.                                   *)

Options(systemPrompt, temperature, maxTokens, modelPreferences, includeContext) ==
    [systemPrompt |-> systemPrompt, temperature |-> temperature, maxTokens |-> maxTokens,
     modelPreferences |-> modelPreferences, includeContext |-> includeContext]

\* a || b
Or(a, b) == IF Truthy(a) THEN a ELSE b

\* the fields of the request other than messages, for a builder with these
\* defaults; Undefined where the builder writes options.x alone
SamplingRequest(options, temperature, maxTokens, includeContext) ==
    [systemPrompt |-> options.systemPrompt,
     temperature |-> IF temperature = Undefined THEN options.temperature
                     ELSE Or(options.temperature, temperature),
     maxTokens |-> IF maxTokens = Undefined THEN options.maxTokens
                   ELSE Or(options.maxTokens, maxTokens),
     modelPreferences |-> options.modelPreferences,
     includeContext |-> Or(options.includeContext, includeContext)]

\* one call of a builder
Built(builder, options, request) ==
    /\ last.op = "new"
    /\ last' = [op |-> builder, options |-> options, request |-> request]
    /\ UNCHANGED <<server, nreg, ghost, inflight>>

createSimpleSamplingRequest(options) ==
    Built("createSimpleSamplingRequest", options,
          SamplingRequest(options, Undefined, Undefined, "none"))

createConversationSamplingRequest(options) ==
    Built("createConversationSamplingRequest", options,
          SamplingRequest(options, Undefined, Undefined, "thisSession"))

createAnalysisSamplingRequest(options) ==
    Built("createAnalysisSamplingRequest", options,
          SamplingRequest(options, "0.3", "2000", "none"))

createCodeReviewSamplingRequest(options) ==
    Built("createCodeReviewSamplingRequest", options,
          SamplingRequest(options, "0.2", Undefined, "none"))

createSummarizationSamplingRequest(options) ==
    Built("createSummarizationSamplingRequest", options,
          SamplingRequest(options, "0.4", "1000", "none"))

\* options as the declared types allow them, each one given or not
OptionObjects ==
    {Options(s, t, n, p, c) :
        s \in {Undefined, "Be educational"},
        t \in {Undefined, "0", "0.3", "0.9"},
        n \in {Undefined, "500"},
        p \in {Undefined, "{costPriority:0.8}"},
        c \in {Undefined, "none", "thisServer", "allServers"}}

NextSampling ==
    \/ \E options \in OptionObjects : createSimpleSamplingRequest(options)
    \/ \E options \in OptionObjects : createConversationSamplingRequest(options)
    \/ \E options \in OptionObjects : createAnalysisSamplingRequest(options)
    \/ \E options \in OptionObjects : createCodeReviewSamplingRequest(options)
    \/ \E options \in OptionObjects : createSummarizationSamplingRequest(options)
SpecSampling == Init /\ [][NextSampling]_vars

----------------------------------------------------------------------------
(* The claims *)

\* the last operation was a POST of a decoded message with this method
Posted(method) ==
    last.op = "post" /\ last.decoded /\ last.body.json.method = method

\* ... whose params is an object
PostedWithParams(method) == Posted(method) /\ last.body.json.params.t = "object"

\* ... a resources/read with a non-empty uri string
PostedRead == PostedWithParams("resources/read") /\ UriTruthy(last.body.json.params.uri)
ReadUri == last.body.json.params.uri.s

\* the response is an error envelope with this message
Failed(message) ==
    /\ last.response.kind = "error"
    /\ last.response.status = 500
    /\ last.response.code = InternalErrorCode
    /\ last.response.error.message = message

\* the registered templates that match uri
Matching(uri) == {t \in DOMAIN ghost.templates : matchesTemplate(uri, t)}

\* of a set of registered templates, the one first registered
Earliest(ts) ==
    CHOOSE t \in ts : \A t2 \in ts : ghost.templates[t].first <= ghost.templates[t2].first

(* C1: a resources/read whose uri equals the URI of a registered resource    *)
(* invokes the handler last given to addResource for that URI, once, and no  *)
(* handler given to addResourceTemplate.                                     *)
C1_ExactResourceWins ==
    (PostedRead /\ ReadUri \in DOMAIN ghost.resources)
        => last.calls = <<[h |-> ghost.resources[ReadUri].h, uri |-> ReadUri]>>

(* C2: a resources/read whose uri equals no registered resource URI and      *)
(* matches no registered template fails with 'Resource not found' and        *)
(* invokes no handler.                                                       *)
C2_UnmatchedNotFound ==
    (PostedRead /\ ReadUri \notin DOMAIN ghost.resources /\ Matching(ReadUri) = {})
        => /\ Failed("Resource not found: ")
           /\ last.response.error.uri = ReadUri
           /\ last.calls = <<>>

(* C3: a resources/read whose uri equals no registered resource URI and      *)
(* matches more than one registered template invokes the handler of the      *)
(* matching template that was registered first.                              *)
C3_EarliestTemplateWins ==
    (PostedRead /\ ReadUri \notin DOMAIN ghost.resources
                /\ Cardinality(Matching(ReadUri)) > 1)
        => last.calls =
             <<[h |-> ghost.templates[Earliest(Matching(ReadUri))].h, uri |-> ReadUri]>>

\* what a listing method returns in the current state
Listing(method) == processJsonRpcMethod(Message("1", method, ParamsUndefined), "none").value

\* items holds exactly one entry under key k (key being the descriptor's key
\* field), and that entry is desc
ToolEntryIs(items, k, desc) ==
    /\ Cardinality({i \in 1..Len(items) : items[i].name = k}) = 1
    /\ \A i \in 1..Len(items) : items[i].name = k => items[i] = desc
ResourceEntryIs(items, k, desc) ==
    /\ Cardinality({i \in 1..Len(items) : items[i].uri = k}) = 1
    /\ \A i \in 1..Len(items) : items[i].uri = k => items[i] = desc
TemplateEntryIs(items, k, desc) ==
    /\ Cardinality({i \in 1..Len(items) : items[i].uriTemplate = k}) = 1
    /\ \A i \in 1..Len(items) : items[i].uriTemplate = k => items[i] = desc

\* the last message invoked exactly handler h, once
InvokedOnly(h) == Len(last.calls) = 1 /\ last.calls[1].h = h

(* C4: in each of the four registries, once a key has been registered twice  *)
(* the listing holds exactly one entry for it, the descriptor registered     *)
(* last, and a later tools/call, resources/read or prompts/get for that key  *)
(* invokes the handler registered last (for a template: a read of a uri that *)
(* is no resource URI and that only this template matches).                  *)
C4_LastWriteWins ==
    /\ \A k \in DOMAIN ghost.tools : ghost.tools[k].n >= 2 =>
          /\ ToolEntryIs(Listing("tools/list").tools, k, ghost.tools[k].desc)
          /\ (PostedWithParams("tools/call") /\ last.body.json.params.name = k)
                => InvokedOnly(ghost.tools[k].h)
    /\ \A k \in DOMAIN ghost.resources : ghost.resources[k].n >= 2 =>
          /\ ResourceEntryIs(Listing("resources/list").resources, k, ghost.resources[k].desc)
          /\ (PostedRead /\ ReadUri = k) => InvokedOnly(ghost.resources[k].h)
    /\ \A k \in DOMAIN ghost.templates : ghost.templates[k].n >= 2 =>
          /\ TemplateEntryIs(Listing("resources/templates/list").resourceTemplates, k,
                             ghost.templates[k].desc)
          /\ (PostedRead /\ ReadUri \notin DOMAIN ghost.resources
                         /\ Matching(ReadUri) = {k})
                => InvokedOnly(ghost.templates[k].h)
    /\ \A k \in DOMAIN ghost.prompts : ghost.prompts[k].n >= 2 =>
          /\ ToolEntryIs(Listing("prompts/list").prompts, k, ghost.prompts[k].desc)
          /\ (PostedWithParams("prompts/get") /\ last.body.json.params.name = k
                                              /\ last.calls # <<>>)
                => InvokedOnly(ghost.prompts[k].h)

\* items is, in some order, the last descriptor of every key of g, each once
ExactlyTheRegistered(items, g) ==
    /\ Len(items) = Cardinality(DOMAIN g)
    /\ \A k \in DOMAIN g : Cardinality({i \in 1..Len(items) : items[i] = g[k].desc}) = 1

Answered == last.response.status = 200 /\ last.response.kind = "result"

(* C5: tools/list, resources/list, resources/templates/list and prompts/list *)
(* each answer with exactly one descriptor per key registered in that        *)
(* registry, equal to the descriptor last registered under the key, and      *)
(* with nothing else.                                                        *)
C5_ListingsExact ==
    /\ Posted("tools/list") =>
          Answered /\ ExactlyTheRegistered(last.response.result.tools, ghost.tools)
    /\ Posted("resources/list") =>
          Answered /\ ExactlyTheRegistered(last.response.result.resources, ghost.resources)
    /\ Posted("resources/templates/list") =>
          Answered /\ ExactlyTheRegistered(last.response.result.resourceTemplates,
                                           ghost.templates)
    /\ Posted("prompts/list") =>
          Answered /\ ExactlyTheRegistered(last.response.result.prompts, ghost.prompts)

\* a resources/list answered while a resource has been registered twice and the
\* template registry is not empty
C5_Witness ==
    /\ Posted("resources/list")
    /\ \E k \in DOMAIN ghost.resources : ghost.resources[k].n = 2
    /\ DOMAIN ghost.templates # {}

\* what each registry shows of itself: its listing and the handler resolved per key
ToolsView == <<Listing("tools/list"), [n \in ToolNames |-> MapGet(toolHandlers, n, NoHandler)]>>
PromptsView ==
    <<Listing("prompts/list"), [n \in PromptNames |-> MapGet(promptHandlers, n, NoHandler)]>>
ResourcesListed == Listing("resources/list")
TemplatesListed == Listing("resources/templates/list")

(* C6: a registration in one registry changes neither the listing of another *)
(* registry nor the handler resolved for a key of another registry:          *)
(* addResourceTemplate leaves the handler resolved for every registered      *)
(* resource URI unchanged, addResource leaves the handler resolved for every *)
(* uri that a template resolves (and that is no resource URI) unchanged.     *)
C6_RegistriesIndependent ==
    [][ /\ last'.op = "addTool" =>
            /\ UNCHANGED <<PromptsView, ResourcesListed, TemplatesListed>>
            /\ \A u \in ReadUris : ResolveResource(u)' = ResolveResource(u)
        /\ last'.op = "addPrompt" =>
            /\ UNCHANGED <<ToolsView, ResourcesListed, TemplatesListed>>
            /\ \A u \in ReadUris : ResolveResource(u)' = ResolveResource(u)
        /\ last'.op = "addResourceTemplate" =>
            /\ UNCHANGED <<ToolsView, PromptsView, ResourcesListed>>
            /\ \A u \in DOMAIN ghost.resources : ResolveResource(u)' = ResolveResource(u)
        /\ last'.op = "addResource" =>
            /\ UNCHANGED <<ToolsView, PromptsView, TemplatesListed>>
            /\ \A u \in ReadUris :
                  (u \notin DOMAIN ghost'.resources /\ Matching(u) # {})
                      => ResolveResource(u)' = ResolveResource(u)
      ]_vars

\* params.arguments as the handler is to receive it
ArgumentsOrEmpty(args) == IF args.t = "undefined" THEN EmptyObject ELSE args

\* the response is an error envelope with the fixed code
ErrorEnvelope ==
    /\ last.response.kind = "error"
    /\ last.response.code = InternalErrorCode

(* C7: tools/call with a registered params.name invokes the handler last     *)
(* registered under that name exactly once, with params.arguments (the empty *)
(* mapping when arguments is absent), and the handler's result is the        *)
(* result of the response, unchanged; with an unregistered name the response *)
(* is an error envelope with the fixed code and no handler is invoked.       *)
C7_ToolCall ==
    Posted("tools/call") =>
        LET p == last.body.json.params IN
        IF p.t = "object" /\ p.name \in DOMAIN ghost.tools
        THEN /\ last.calls = <<[h |-> ghost.tools[p.name].h,
                                args |-> ArgumentsOrEmpty(p.arguments)]>>
             /\ last.out = "value" =>
                    Answered /\ last.response.result = HandlerValue(ghost.tools[p.name].h)
             /\ last.out = "null" => Answered /\ last.response.result = JsNull
        ELSE ErrorEnvelope /\ last.calls = <<>>

\* the required arguments of the descriptor, by index, that args holds no
\* truthy value for
MissingRequired(arguments, args) ==
    {i \in 1..Len(arguments) :
        /\ arguments[i].required
        /\ ~(args.t = "object" /\ Truthy(args.props[arguments[i].name]))}
Least(S) == CHOOSE i \in S : \A j \in S : i <= j

(* C8: prompts/get invokes the prompt's handler, once, with params.arguments *)
(* or the empty mapping, iff params.name is registered and every required    *)
(* argument of its descriptor has a truthy value in params.arguments;        *)
(* otherwise no handler is invoked and the error is the unknown-prompt error *)
(* for an unregistered name, else the missing-argument error naming the      *)
(* first failing required argument in descriptor order.                      *)
C8_PromptGet ==
    Posted("prompts/get") =>
        LET p == last.body.json.params
            registered == p.t = "object" /\ p.name \in DOMAIN ghost.prompts IN
        IF ~registered
        THEN /\ Failed("Unknown prompt: ")
             /\ last.response.error.name = p.name
             /\ last.calls = <<>>
        ELSE LET arguments == ghost.prompts[p.name].desc.arguments
                 missing == MissingRequired(arguments, p.arguments) IN
             IF missing # {}
             THEN /\ Failed("Required argument missing: ")
                  /\ last.response.error.name = arguments[Least(missing)].name
                  /\ last.calls = <<>>
             ELSE last.calls = <<[h |-> ghost.prompts[p.name].h,
                                  args |-> IF ArgsTruthy(p.arguments) THEN p.arguments
                                           ELSE EmptyObject]>>

(* C9: sampling/createMessage fails with the not-configured error for every  *)
(* params while no sampling handler has been set; once one is set it fails   *)
(* with the invalid-request error, invoking nothing, when messages is        *)
(* absent, not an array or empty; otherwise it invokes the handler set last, *)
(* once, with the request, and the response result is what it returned.      *)
C9_Sampling ==
    Posted("sampling/createMessage") =>
        LET p == last.body.json.params IN
        IF ghost.sampling = NoHandler
        THEN Failed("Sampling handler not configured") /\ last.calls = <<>>
        ELSE IF ~(p.t = "object" /\ p.messages.t = "array" /\ p.messages.n > 0)
        THEN /\ Failed("Messages array is required and cannot be empty")
             /\ last.calls = <<>>
        ELSE /\ last.calls = <<[h |-> ghost.sampling, request |-> p]>>
             /\ last.out = "value" =>
                    Answered /\ last.response.result = HandlerValue(ghost.sampling)

(* C10: a well-formed notifications/initialized message is answered with 204 *)
(* and no body, whatever its params and id and whatever the state of the     *)
(* server, invokes no handler and changes no server state.                   *)
C10_InitializedNoBody ==
    [][ (/\ last'.op = "post"
         /\ last'.decoded
         /\ last'.body.json.method = "notifications/initialized")
            => /\ last'.response = NoContent
               /\ last'.calls = <<>>
               /\ UNCHANGED <<server, nreg, ghost>>
      ]_vars

\* the acknowledgment was sent with an id and an object as params to a server
\* with a tool, a sampling handler and a changed log level
C10_Witness ==
    /\ Posted("notifications/initialized")
    /\ last.body.json.id = "1"
    /\ last.body.json.params.t = "object"
    /\ last.response.status = 204
    /\ tools # <<>>
    /\ samplingHandler # NoHandler
    /\ logLevel = "debug"

\* the last operation was a POST of a message that decoded
Decoded == last.op = "post" /\ last.decoded

(* C11: a well-formed message that carries no id is answered with the empty  *)
(* no-content reply, whatever its method: never a body.                      *)
C11_NotificationNoBody ==
    (Decoded /\ last.body.json.id = "undefined") => last.response = NoContent

(* C12: a well-formed message that carries an id and whose processing does   *)
(* not throw is answered with the success envelope {jsonrpc, id, result}     *)
(* whose id is the request's id, for every method and every value a handler  *)
(* returned.                                                                 *)
C12_RequestGetsResult ==
    (Decoded /\ last.body.json.id # "undefined" /\ last.response.kind # "error")
        => /\ Answered
           /\ last.response.id = last.body.json.id
           /\ last.out = "value" => last.response.result.t # "null"
           /\ last.out = "null" => last.response.result = JsNull

(* C13: the error envelope of a message that decoded and carries an id holds *)
(* that id; its id is null only when the message carried no id (or the id    *)
(* null) or did not decode.                                                  *)
C13_ErrorEchoesId ==
    (last.op = "post" /\ last.response.kind = "error")
        => /\ (last.decoded /\ last.body.json.id # "undefined")
                => last.response.id = last.body.json.id
           /\ last.response.id = "null"
                => (~last.decoded \/ last.body.json.id \in {"undefined", "null"})

(* C14: whatever throws while a POST is handled (an empty body, a body that  *)
(* is not JSON, an envelope of the wrong shape, an unknown method, missing   *)
(* params, a handler rejecting) ends in an error envelope with status 500    *)
(* and code -32603 whose message is the message of the Error thrown, or      *)
(* 'Internal error' when what was thrown is not an Error.                    *)
C14_ThrownBecomesEnvelope ==
    last.op = "post" =>
        LET b == last.body IN
        /\ b.kind \in {"empty", "blank"} => Failed("Empty request body")
        /\ b.kind = "text" => Failed("SyntaxError: not valid JSON")
        /\ (b.kind = "json" /\ (b.json.jsonrpc # "2.0" \/ b.json.id = "true"
                                                      \/ b.json.methodType # "string"))
              => Failed("ZodError: invalid envelope")
        /\ Posted("unknown/method")
              => Failed("Unknown method: ") /\ last.response.error.name = "unknown/method"
        /\ (Posted("tools/call") /\ b.json.params.t # "object")
              => Failed("Cannot destructure property 'name'")
        /\ last.out = "rejectError" => Failed("handler failed")
        /\ last.out = "rejectOther" => Failed("Internal error")
        /\ last.response.kind = "error"
              => last.response.status = 500 /\ last.response.code = -32603

\* a handler rejected with a value that is not an Error and the client got the
\* envelope with the literal message
C14_Witness ==
    /\ last.op = "post"
    /\ last.out = "rejectOther"
    /\ last.calls # <<>>
    /\ Failed("Internal error")

\* one message per routed method, to observe what the server would answer
Observers ==
    Messages({"1"}, {"initialize", "tools/list", "resources/list",
                     "resources/templates/list", "prompts/list"}, {ParamsUndefined})
    \cup Messages({"1"}, {"tools/call"}, CallParams({"t1"}, {ArgsUndefined}))
    \cup Messages({"1"}, {"resources/read"},
                  {ParamsObject(Undefined, ArgsUndefined, UriString(UriAB), Undefined,
                                MsgsUndefined)})
    \cup Messages({"1"}, {"prompts/get"}, CallParams({"p1"}, {ArgsUndefined}))
    \cup Messages({"1"}, {"sampling/createMessage"},
                  {ParamsObject(Undefined, ArgsUndefined, UriUndefined, Undefined,
                                MsgsArray(2))})

(* C15: a message that ends in an error envelope changes no server state     *)
(* (registries, handlers, sampling slot, log level, identity, capabilities), *)
(* so that a later message is answered as it would have been without it.     *)
C15_ErrorLeavesState ==
    [][ (last'.op = "post" /\ last'.response.kind = "error")
            => /\ UNCHANGED server
               /\ \A body \in Observers :
                     handleJsonRpcRequest(body, "value")' = handleJsonRpcRequest(body, "value")
      ]_vars

\* a logging/setLevel without a level failed on a server that has a tool and a
\* log level set by an earlier message
C15_Witness ==
    /\ Posted("logging/setLevel")
    /\ last.response.kind = "error"
    /\ logLevel = "debug"
    /\ tools # <<>>

(* C16: in every state reached by registrations, setSamplingHandler,         *)
(* setLogLevel and messages, initialize answers protocolVersion              *)
(* '2024-11-05', the serverInfo given at construction and the capabilities   *)
(* given at construction ({tools:{}} when none was given), whatever its      *)
(* params and whatever is registered.                                        *)
C16_InitializeEchoesConstruction ==
    Posted("initialize") =>
        /\ Answered
        /\ last.response.result =
             [protocolVersion |-> "2024-11-05",
              capabilities |-> IF ghost.given.capabilities = "undefined" THEN "{tools:{}}"
                               ELSE ghost.given.capabilities,
              serverInfo |-> ghost.given.serverInfo]

\* initialize answered, with an object as params, by a server constructed with
\* the empty capability set that has a tool, a resource and a changed log level
C16_Witness ==
    /\ Posted("initialize")
    /\ last.body.json.params.t = "object"
    /\ last.response.result.capabilities = "{}"
    /\ tools # <<>>
    /\ resources # <<>>
    /\ logLevel # "info"

(* C17: when resources/read resolves a handler, by the exact URI or by a     *)
(* template, that handler is invoked exactly once with the uri of the        *)
(* request, unchanged, and the result is {contents: [c]}, c being the one    *)
(* value the handler returned: contents has length 1.                        *)
C17_ReadWrapsOneContent ==
    (PostedRead /\ ResolveResource(ReadUri) # NoHandler)
        => /\ last.calls = <<[h |-> ResolveResource(ReadUri), uri |-> ReadUri]>>
           /\ last.out = "value" =>
                /\ Answered
                /\ last.response.result = [contents |-> <<HandlerValue(last.calls[1].h)>>]
                /\ Len(last.response.result.contents) = 1

\* a read answered through a template that is not the uri itself
C17_Witness ==
    /\ PostedRead
    /\ ReadUri \notin DOMAIN ghost.resources \cup DOMAIN ghost.templates
    /\ Matching(ReadUri) # {}
    /\ last.out = "value"
    /\ Answered
    /\ Len(last.calls) = 1

\* whether position i of template t opens a {placeholder}: a "{", then at least
\* one character that is no "}", then a "}"
OpensPlaceholder(t, i) ==
    /\ t[i] = "{"
    /\ i + 1 <= Len(t)
    /\ t[i + 1] # "}"
    /\ \E j \in (i + 2)..Len(t) : t[j] = "}"
ClosedAt(t, i) == CHOOSE j \in (i + 2)..Len(t) : t[j] = "}" /\ \A k \in (i + 1)..(j - 1) : t[k] # "}"

\* u is the template t, from position i on, with each placeholder replaced by a
\* non-empty string without "/" and every other character kept
RECURSIVE Instantiates(_, _, _)
Instantiates(u, t, i) ==
    IF i > Len(t) THEN u = <<>>
    ELSE IF OpensPlaceholder(t, i)
    THEN \E n \in 1..Len(u) :
            /\ \A k \in 1..n : u[k] # "/"
            /\ Instantiates(SubSeq(u, n + 1, Len(u)), t, ClosedAt(t, i) + 1)
    ELSE u # <<>> /\ u[1] = t[i] /\ Instantiates(Tail(u), t, i + 1)

(* C18: a uri matches a template iff the whole uri is the template with each *)
(* {placeholder} replaced by a non-empty string that holds no '/', every     *)
(* other character of the template standing for itself.                      *)
C18_MatchIsInstantiation ==
    last.op = "matchesTemplate"
        => (last.result <=> Instantiates(last.uri, last.template, 1))

(* C19: the log level is 'info' at construction and changes only through     *)
(* setLogLevel or logging/setLevel; logging/setLevel with a truthy           *)
(* params.level stores exactly that value, whether or not it is one of the   *)
(* eight levels, and answers the empty result {}; with level absent or falsy *)
(* it answers an error and the stored level is unchanged.                    *)
C19_LogLevel ==
    [][ /\ last.op = "new" => logLevel = "info"
        /\ logLevel' # logLevel
              => \/ last'.op = "setLogLevel"
                 \/ /\ last'.op = "post"
                    /\ last'.decoded
                    /\ last'.body.json.method = "logging/setLevel"
        /\ last'.op = "setLogLevel" => logLevel' = last'.level
        /\ (last'.op = "post" /\ last'.decoded
                              /\ last'.body.json.method = "logging/setLevel")
              => LET p == last'.body.json.params IN
                 IF p.t = "object" /\ Truthy(p.level)
                 THEN /\ logLevel' = p.level
                      /\ last'.response.status = 200
                      /\ last'.response.kind = "result"
                      /\ last'.response.result = EmptyResult
                 ELSE /\ last'.response.kind = "error"
                      /\ logLevel' = logLevel
      ]_vars

\* logging/setLevel stored a level that is none of the eight
C19_Witness ==
    /\ Posted("logging/setLevel")
    /\ last.body.json.params.level = "loud"
    /\ logLevel = "loud"
    /\ last.response.result = EmptyResult

\* the messages of the whole server other than logging/setLevel
NoSetLevel == {body \in AllMessages : body.json.method # "logging/setLevel"}

\* the response to a message and the handler invocations it makes
Answer(body) ==
    LET r == handleJsonRpcRequest(body, "value") IN <<r.response, r.calls>>

(* C20: the stored log level has no influence on dispatch.  Two servers that *)
(* differ only in their log level answer every message other than            *)
(* logging/setLevel with the same response and the same handler              *)
(* invocations, and such a message keeps them differing only in the log      *)
(* level: a step that changes the log level alone changes no answer, and a   *)
(* message other than logging/setLevel changes no server state.              *)
C20_LogLevelNoInfluence ==
    [][ /\ last'.op = "setLogLevel"
              => \A body \in NoSetLevel : Answer(body)' = Answer(body)
        /\ (last'.op = "post" /\ last'.body \in NoSetLevel) => UNCHANGED server
      ]_vars

\* a tool was called on a server whose log level setLogLevel had changed to a
\* value that is none of the eight
C20_Witness ==
    /\ Posted("tools/call")
    /\ last.calls # <<>>
    /\ logLevel = "loud"

\* the method names processJsonRpcMethod has a branch for
RoutedMethods ==
    {"initialize", "notifications/initialized", "tools/list", "tools/call",
     "resources/list", "resources/templates/list", "resources/read", "prompts/list",
     "prompts/get", "sampling/createMessage", "logging/setLevel"}

(* C21: a well-formed message whose method is none of the eleven routed      *)
(* names is answered with an error envelope with the fixed code, in a JSON   *)
(* body with status 500 and not with a 404; no handler is invoked and no     *)
(* state changes.                                                            *)
C21_UnknownMethod ==
    [][ (/\ last'.op = "post"
         /\ last'.decoded
         /\ last'.body.json.method \notin RoutedMethods)
            => /\ last'.response.kind = "error"
               /\ last'.response.status = 500
               /\ last'.response.code = -32603
               /\ last'.response.error.message = "Unknown method: "
               /\ last'.response.error.name = last'.body.json.method
               /\ last'.calls = <<>>
               /\ UNCHANGED server
      ]_vars

\* an unknown method was posted to a server that has a tool and a sampling handler
C21_Witness ==
    /\ Posted("unknown/method")
    /\ last.response.kind = "error"
    /\ tools # <<>>
    /\ samplingHandler # NoHandler

\* the body is empty or blank, is not JSON, or is JSON of the wrong shape: the
\* version tag is not '2.0', the id is neither a string, a number nor null, or
\* the method is not a string
Malformed(body) ==
    \/ body.kind # "json"
    \/ body.json.jsonrpc # "2.0"
    \/ body.json.id \notin {"undefined", "null", "1", "'a'"}
    \/ body.json.methodType # "string"

\* the answer to a body rejected at decoding
Rejected ==
    /\ ~last'.decoded
    /\ last'.response.kind = "error"
    /\ last'.response.id = "null"
    /\ last'.response.error.message
         \in {"Empty request body", "SyntaxError: not valid JSON", "ZodError: invalid envelope"}
    /\ last'.calls = <<>>
    /\ UNCHANGED server

(* C22, as stated: a body that is empty or blank, is not JSON or does not    *)
(* match the envelope shape, a method that is the empty string included, is  *)
(* rejected at decoding: error envelope with id null, no routing branch run, *)
(* no handler invoked, no state changed.                                     *)
C22_MalformedRejected ==
    [][ (last'.op = "post"
            /\ (Malformed(last'.body) \/ last'.body.json.method = ""))
            => Rejected
      ]_vars

(* C22, amended: as stated for every body but one whose method is the empty  *)
(* string; that one decodes, is routed, and fails in the default branch as   *)
(* an unknown method (error envelope with id null, no handler, no state      *)
(* change).                                                                  *)
C22_MalformedRejected_Amended ==
    [][ /\ (last'.op = "post" /\ Malformed(last'.body)) => Rejected
        /\ (last'.op = "post" /\ ~Malformed(last'.body) /\ last'.body.json.method = "")
              => /\ last'.decoded
                 /\ last'.response.kind = "error"
                 /\ last'.response.id = "null"
                 /\ last'.response.error.message = "Unknown method: "
                 /\ last'.calls = <<>>
                 /\ UNCHANGED server
      ]_vars

\* a body with an id that is neither a string, a number nor null was rejected
\* by a server that has a tool
C22_Witness ==
    /\ last.op = "post"
    /\ last.body.kind = "json"
    /\ last.body.json.id = "true"
    /\ ~last.decoded
    /\ last.response.kind = "error"
    /\ tools # <<>>

\* the last operation was handleRequest for such a request
Requested(method) == last.op = "handleRequest" /\ last.request.method = method

\* the one response handleRequest returned
TheResponse == last.responses[1]

\* the tool descriptors a JSON-RPC tools/list returns
ToolsListed ==
    handleJsonRpcRequest(JsonBody(Message("1", "tools/list", ParamsUndefined)), "none")
        .response.result

(* C23: handleRequest returns exactly one response, of a kind fixed by the   *)
(* HTTP request: OPTIONS gets 204 with the CORS headers; GET /tools/list     *)
(* gets 200 with the descriptors of JSON-RPC tools/list, with or without a   *)
(* sessionId; another GET with a sessionId gets 200 text/event-stream;       *)
(* another GET gets 404; POST gets a JSON-RPC response with status 200, 204  *)
(* or 500; every other method gets 405.                                      *)
C23_ResponseKind ==
    last.op = "handleRequest" =>
        /\ Len(last.responses) = 1
        /\ Requested("OPTIONS") =>
              /\ TheResponse.status = 204
              /\ {"Access-Control-Allow-Origin: *",
                  "Access-Control-Allow-Methods: GET, POST, OPTIONS",
                  "Access-Control-Allow-Headers: Content-Type"} \subseteq TheResponse.headers
        /\ (Requested("GET") /\ last.request.pathname = "/tools/list") =>
              /\ TheResponse.status = 200
              /\ TheResponse.json = ToolsListed
        /\ (Requested("GET") /\ last.request.pathname # "/tools/list"
               /\ last.request.sessionId # "absent") =>
              /\ TheResponse.status = 200
              /\ "Content-Type: text/event-stream" \in TheResponse.headers
        /\ (Requested("GET") /\ last.request.pathname # "/tools/list"
               /\ last.request.sessionId = "absent") =>
              TheResponse.status = 404
        /\ Requested("POST") =>
              /\ TheResponse.status \in {200, 204, 500}
              /\ TheResponse.json = handleJsonRpcRequest(last.request.body, last.out).response
        /\ last.request.method \notin {"OPTIONS", "GET", "POST"} =>
              TheResponse.status = 405

\* GET /tools/list with a sessionId was answered with the two registered tools
C23_Witness ==
    /\ Requested("GET")
    /\ last.request.pathname = "/tools/list"
    /\ last.request.sessionId = "s1"
    /\ Len(tools) = 2
    /\ TheResponse.json = [tools |-> MapValues(tools)]

\* activation i stands at this await
At(i, at) == i \in DOMAIN inflight /\ inflight[i].at = at

\* no second invocation, no second response, no response while the handler is
\* pending, and none without the handler having completed
OneCallOneResponse(a) ==
    /\ Len(a.calls) <= 1
    /\ Len(a.responses) <= 1
    /\ a.at \in {"text", "handler"} => a.responses = <<>>
    /\ a.at = "handler" <=> (a.calls # <<>> /\ a.out = "pending")
    /\ a.at = "returned" <=> Len(a.responses) = 1

(* C24: for every message that reaches a handler the handler is invoked at   *)
(* most once and the response is produced only after the invocation has      *)
(* completed: once the handler has completed exactly one response is         *)
(* eventually produced, and while it has not completed there is no response. *)
C24_ResponseFollowsHandler ==
    /\ [](\A i \in DOMAIN inflight : OneCallOneResponse(inflight[i]))
    /\ \A i \in 1..MaxInflight :
          At(i, "resume") ~> (At(i, "returned") /\ Len(inflight[i].responses) = 1)
    /\ [][\A i \in 1..MaxInflight :
              At(i, "returned") => inflight'[i] = inflight[i]]_vars

\* a tool call has returned the result of its handler while another tool call
\* is still waiting for its own
C24_Witness ==
    /\ Len(inflight) = 2
    /\ inflight[1].at = "handler"
    /\ inflight[2].at = "returned"
    /\ inflight[2].calls # <<>>
    /\ inflight[2].out = "value"
    /\ inflight[2].responses[1].kind = "result"

\* the calls and reads that name a key
KeyedMessages ==
    Messages({"1"}, {"tools/call"}, CallParams(ToolNames, {ArgsUndefined}))
    \cup Messages({"1"}, {"prompts/get"}, CallParams(PromptNames, {ArgsUndefined}))
    \cup Messages({"1"}, {"resources/read"},
                  {ParamsObject(Undefined, ArgsUndefined, UriString(u), Undefined,
                                MsgsUndefined) : u \in ResourceUris})

\* the message fails because its key resolves to nothing
Unresolved(body) ==
    LET r == processJsonRpcMethod(body.json, "value") IN
    /\ r.thrown
    /\ r.error.message \in {"Unknown tool: ", "Unknown prompt: ", "Resource not found: "}

\* every key ever registered is listed by its registry
AllListed ==
    /\ DOMAIN ghost.tools \subseteq KeySet(tools)
    /\ DOMAIN ghost.resources \subseteq KeySet(resources)
    /\ DOMAIN ghost.templates \subseteq KeySet(resourceTemplates)
    /\ DOMAIN ghost.prompts \subseteq KeySet(prompts)

(* C25: the registries only grow: every key ever registered is still listed, *)
(* no step removes a key, a call or read whose key resolved to a handler     *)
(* never afterwards fails as unknown or not found, and the sampling slot,    *)
(* once set, is never empty again.                                           *)
C25_RegistriesGrow ==
    [][ /\ AllListed'
        /\ KeySet(tools) \subseteq KeySet(tools')
        /\ KeySet(resources) \subseteq KeySet(resources')
        /\ KeySet(resourceTemplates) \subseteq KeySet(resourceTemplates')
        /\ KeySet(prompts) \subseteq KeySet(prompts')
        /\ \A body \in KeyedMessages : ~Unresolved(body) => ~Unresolved(body)'
        /\ samplingHandler # NoHandler => samplingHandler' # NoHandler
      ]_vars

\* a second tool and then a sampling handler have been registered, and the
\* first tool still resolves
C25_Witness ==
    /\ Len(tools) = 2
    /\ last.op = "setSamplingHandler"
    /\ samplingHandler # NoHandler
    /\ \A body \in Messages({"1"}, {"tools/call"}, CallParams(ToolNames, {ArgsUndefined})) :
          ~Unresolved(body)

\* prompts/get for each prompt name, with and without arguments
PromptGets ==
    {ParamsObject(n, a, UriUndefined, Undefined, MsgsUndefined) :
        n \in PromptNames, a \in {ArgsUndefined, ArgsObject([x \in ArgNames |-> "v"])}}

(* C28: the handler maps and the descriptor maps hold the same keys:         *)
(* toolHandlers those of tools, promptHandlers those of prompts,             *)
(* resourceHandlers those of resources and of resourceTemplates together;    *)
(* so every listed capability has a handler, and prompts/get never fails     *)
(* with 'No handler for prompt'.                                             *)
C28_HandlersMatchDescriptors ==
    /\ KeySet(toolHandlers) = KeySet(tools)
    /\ KeySet(promptHandlers) = KeySet(prompts)
    /\ KeySet(resourceHandlers) = KeySet(resources) \cup KeySet(resourceTemplates)
    /\ \A k \in KeySet(tools) : MapGet(toolHandlers, k, NoHandler) # NoHandler
    /\ \A k \in KeySet(prompts) : MapGet(promptHandlers, k, NoHandler) # NoHandler
    /\ \A k \in KeySet(resources) \cup KeySet(resourceTemplates) :
          MapGet(resourceHandlers, k, NoHandler) # NoHandler
    /\ \A params \in PromptGets :
          handlePromptGet(params, "value").error.message # "No handler for prompt: "

\* a resource, a template and a prompt are registered, under three keys
C28_Witness ==
    /\ Len(resources) = 1
    /\ Len(resourceTemplates) = 1
    /\ Len(resourceHandlers) = 2
    /\ Len(prompts) = 1
    /\ last.op = "addPrompt"

\* the handler registered last for what the message names, NoHandler if none was
RegisteredFor(body) ==
    IF body.json.method = "sampling/createMessage" THEN ghost.sampling
    ELSE IF body.json.params.name \in DOMAIN ghost.tools
    THEN ghost.tools[body.json.params.name].h
    ELSE NoHandler

\* the step is activation i passing from one await to another
Passes(i, from, to) == At(i, from) /\ inflight'[i].at = to

(* C29: handler resolution is atomic with respect to registration.  The      *)
(* handler a message invokes is the one registered for its key when the      *)
(* message is dispatched, the new one after a re-registration; registering   *)
(* while a handler is pending changes nothing of the activations in flight   *)
(* and invokes nothing; the response carries the result of the handler that  *)
(* was invoked.                                                              *)
C29_ResolutionAtomic ==
    [][ /\ last'.op \in {"addTool", "setSamplingHandler"} => inflight' = inflight
        /\ \A i \in 1..MaxInflight :
              /\ (Passes(i, "text", "handler") \/ Passes(i, "text", "resume")) =>
                    /\ RegisteredFor(inflight[i].body) # NoHandler
                          => /\ Len(inflight'[i].calls) = 1
                             /\ inflight'[i].calls[1].h = RegisteredFor(inflight[i].body)
                    /\ RegisteredFor(inflight[i].body) = NoHandler
                          => inflight'[i].calls = <<>>
              /\ Passes(i, "handler", "resume") => inflight'[i].calls = inflight[i].calls
              /\ Passes(i, "resume", "returned") =>
                    /\ inflight'[i].calls = inflight[i].calls
                    /\ inflight[i].out = "value" =>
                          /\ inflight'[i].responses[1].kind = "result"
                          /\ inflight'[i].responses[1].result
                               = HandlerValue(inflight[i].calls[1].h)
      ]_vars

\* a tool call has returned the result of the handler it invoked although the
\* tool was registered again while that handler was pending, and a later call
\* has invoked the new handler
C29_Witness ==
    /\ Len(inflight) = 2
    /\ \A i \in 1..2 : inflight[i].body.json.method = "tools/call"
    /\ inflight[1].at = "returned"
    /\ inflight[1].out = "value"
    /\ inflight[1].responses[1].result = HandlerValue(inflight[1].calls[1].h)
    /\ inflight[2].calls # <<>>
    /\ inflight[2].calls[1].h = MapGet(toolHandlers, "t1", NoHandler)
    /\ inflight[2].calls[1].h # inflight[1].calls[1].h

\* the response of a returned activation is made of its own message and of the
\* handler it invoked: a result carries the message's id and that handler's
\* value, an error the null id, and the handler is one of the kind the
\* message's method calls
OwnResponse(a) ==
    LET response == a.responses[1] IN
    /\ response.kind \in {"result", "error"}
    /\ response.kind = "result" =>
          /\ response.id = a.body.json.id
          /\ a.out = "value"
          /\ response.result = HandlerValue(a.calls[1].h)
    /\ response.kind = "error" =>
          /\ response.id = "null"
          /\ a.out \in {"none", "rejectError"}
    /\ a.calls # <<>> =>
          a.calls[1].h = IF a.body.json.method = "tools/call" THEN ghost.tools["t1"].first
                         ELSE ghost.sampling

\* another activation than i awaits its handler
OtherPending(i) == \E j \in DOMAIN inflight : j # i /\ inflight[j].at = "handler"

Supplied(text, args, i) ==
    {args[e].value : e \in {e \in DOMAIN args :
                              args[e].defined /\ HoldsAt(text, i, Placeholder(args[e].key))}}

\* text with every {{name}} replaced at once by the value supplied for name
RECURSIVE Simultaneous(_, _, _)
Simultaneous(text, args, i) ==
    IF i > Len(text) THEN <<>>
    ELSE IF Supplied(text, args, i) # {}
    THEN (CHOOSE v \in Supplied(text, args, i) : TRUE)
            \o Simultaneous(text, args, i + Len(Placeholder("a")))
    ELSE <<text[i]>> \o Simultaneous(text, args, i + 1)

\* a handler of a prompt builder was called
PromptBuilt == last.op \in {"createSimplePrompt", "createMultiStepPrompt"}

(* C26: the handlers built by createSimplePrompt and createMultiStepPrompt   *)
(* return the template text with every {{name}} replaced by the value        *)
(* supplied for name, placeholders without a value left as written, in one   *)
(* simultaneous substitution: what is inserted is not rewritten.             *)
C26_SimultaneousSubstitution ==
    PromptBuilt =>
        \A s \in DOMAIN last.texts :
            last.messages[s] = Simultaneous(last.texts[s], last.args, 1)

\* a sampling request builder was called
SamplingBuilders ==
    {"createSimpleSamplingRequest", "createConversationSamplingRequest",
     "createAnalysisSamplingRequest", "createCodeReviewSamplingRequest",
     "createSummarizationSamplingRequest"}

\* what the builder puts in place of an option that is absent; "undefined"
\* where it has no default
DefaultOf(builder, option) ==
    CASE option = "includeContext" ->
            IF builder = "createConversationSamplingRequest" THEN "thisSession" ELSE "none"
      [] option = "temperature" /\ builder = "createAnalysisSamplingRequest" -> "0.3"
      [] option = "temperature" /\ builder = "createCodeReviewSamplingRequest" -> "0.2"
      [] option = "temperature" /\ builder = "createSummarizationSamplingRequest" -> "0.4"
      [] option = "maxTokens" /\ builder = "createAnalysisSamplingRequest" -> "2000"
      [] option = "maxTokens" /\ builder = "createSummarizationSamplingRequest" -> "1000"
      [] OTHER -> "undefined"

(* C27: every sampling request builder passes each option that is supplied   *)
(* through unchanged and applies its default only when the option is absent. *)
C27_OptionsPassThrough ==
    last.op \in SamplingBuilders =>
        \A option \in DOMAIN last.options :
            last.request[option] = IF last.options[option] = "undefined"
                                   THEN DefaultOf(last.op, option)
                                   ELSE last.options[option]

=============================================================================
